---- MODULE Spec2Model ----
(***************************************************************************)
(* De-Mercator: the loader pipeline of run_overlay_app.py and              *)
(* generate_overlay_html.py (main and its helpers) and the browser session *)
(* of the overlay app (activeLayers, the SVG overlay, the Leaflet map).    *)
(*                                                                         *)
(* Coordinates are small integers (degrees for WGS84, abstract planar      *)
(* units after the AEQD projection).  A geometry is one coordinate         *)
(* sequence, or null, or empty.                                            *)
(***************************************************************************)
EXTENDS Integers, Sequences, FiniteSets, TLC

VARIABLES
    config,        \* the parsed YAML config handed to main()
    appExit,       \* run_overlay_app.main: "none" before it ran, "ok", or the exception raised
    appFiles,      \* data/locations.json written by _write_app_files: <<>> or <<payload>>
    htmlExit,      \* generate_overlay_html.main: likewise
    htmlFiles,     \* the HTML written by generate_overlay_html.main: <<>> or <<payload>>
    DATA,          \* the browser's DATA: <<>> before init() fetched it, else <<payload>>
    activeLayers,  \* the browser's activeLayers array
    layerList,     \* the chips of #layerList, each with the instId its Remove button captured
    svg,           \* the <g> children of #overlay
    projection,    \* the d3 projection renderOverlay fitted last (NoFit when it returned early)
    globeChecked,  \* #globeToggle.checked
    map,           \* the Leaflet map: created or not, its view
    leafletLayers, \* the browser's leafletLayers array: the L.geoJSON layers on the map
    hist           \* history, read by no operation (see the history section)

loadVars == <<config, appExit, appFiles, htmlExit, htmlFiles>>
pageVars == <<DATA, activeLayers, layerList, svg, projection, globeChecked, map, leafletLayers>>
vars == <<loadVars, pageVars, hist>>

(***************************************************************************)
(* Bounds of the model                                                     *)
(***************************************************************************)
MaxLocs == 2
MaxLayers == 2
MaxOffset == 10

(***************************************************************************)
(* Numbers.  NaN stands for the float NaN: every arithmetic on it gives    *)
(* NaN again.                                                              *)
(***************************************************************************)
NaN == 1000000

IsNaN(v) == v = NaN

Sub(a, b) == IF IsNaN(a) \/ IsNaN(b) THEN NaN ELSE a - b

Min(a, b) == IF a <= b THEN a ELSE b

Max(a, b) == IF a >= b THEN a ELSE b

(***************************************************************************)
(* Geometries, files and configs: the inputs of main()                     *)
(***************************************************************************)
NullGeom == [kind |-> "null", coords |-> <<>>]

EmptyGeom == [kind |-> "empty", coords |-> <<>>]

Geom(cs) == [kind |-> "geom", coords |-> cs]

\* geom is None or geom.is_empty
IsNoneOrEmpty(g) == g.kind = "null" \/ g.coords = <<>>

Row(g, era) == [geometry |-> g, era |-> era]

\* The GIS files on disk, by path: missing, or a table of rows with an optional CRS.
Files ==
    [p \in {"a.shp", "b.gpkg", "n.shp", "z.shp", "gone.shp"} |->
        CASE p = "a.shp" ->
                [exists |-> TRUE, crs |-> "none",
                 rows |-> << Row(Geom(<< <<0, 0>>, <<2, 0>>, <<2, 2>>, <<0, 0>> >>), 1) >>]
          [] p = "b.gpkg" ->
                [exists |-> TRUE, crs |-> "EPSG:4326",
                 rows |-> << Row(NullGeom, 1),
                             Row(Geom(<< <<4, 1>>, <<7, 1>> >>), 1),
                             Row(EmptyGeom, 1),
                             Row(Geom(<< <<5, -1>>, <<5, 3>>, <<6, 3>> >>), 2) >>]
          [] p = "n.shp" ->
                [exists |-> TRUE, crs |-> "EPSG:4326",
                 rows |-> << Row(NullGeom, 1), Row(EmptyGeom, 1) >>]
          [] p = "z.shp" ->
                [exists |-> TRUE, crs |-> "EPSG:4326", rows |-> << >>]
          [] OTHER ->
                [exists |-> FALSE, crs |-> "none", rows |-> << >>]]

\* One entry of config["locations"]: keys is the set of keys the dict has; where = 0
\* means no "where" filter, k > 0 the filter "era == k"; name and color are "" when
\* the key is absent.
Loc(keys, id, path, where, name, color) ==
    [keys |-> keys, id |-> id, path |-> path, where |-> where, name |-> name, color |-> color]

FullKeys == {"id", "path"}

LocPool ==
    { Loc(FullKeys, "a", "a.shp", 0, "", ""),
      Loc(FullKeys \cup {"name", "color"}, "b", "b.gpkg", 0, "Bravo", "#000000"),
      Loc(FullKeys \cup {"where"}, "b2", "b.gpkg", 2, "", ""),
      Loc(FullKeys \cup {"where"}, "w", "a.shp", 2, "", ""),
      Loc(FullKeys, "n", "n.shp", 0, "", ""),
      Loc(FullKeys, "z", "z.shp", 0, "", ""),
      Loc(FullKeys, "m", "gone.shp", 0, "", ""),
      Loc({"path"}, "", "a.shp", 0, "", "") }

\* A YAML scalar given for lat or lon: a number, a numeric string, or a string
\* float() cannot parse.
Num(v) == [t |-> "num", v |-> v]

NumStr(v) == [t |-> "str", v |-> v]

BadStr == [t |-> "bad", v |-> 0]

\* config["projection_center"]: isDict FALSE is a missing key (None).
Pc(isDict, keys, lat, lon) == [isDict |-> isDict, keys |-> keys, lat |-> lat, lon |-> lon]

PcPool ==
    { Pc(FALSE, {}, Num(0), Num(0)),
      Pc(TRUE, {"lat"}, Num(1), Num(0)),
      Pc(TRUE, {"lat", "lon"}, Num(1), Num(3)),
      Pc(TRUE, {"lat", "lon"}, Num(1), Num(4)),
      Pc(TRUE, {"lat", "lon"}, Num(0), Num(2)),
      Pc(TRUE, {"lat", "lon"}, NumStr(1), NumStr(3)),
      Pc(TRUE, {"lat", "lon"}, Num(90), Num(-180)),
      Pc(TRUE, {"lat", "lon"}, Num(95), Num(3)),
      Pc(TRUE, {"lat", "lon"}, Num(1), Num(200)),
      Pc(TRUE, {"lat", "lon"}, Num(-91), Num(-181)),
      Pc(TRUE, {"lat", "lon"}, BadStr, Num(3)) }

SeqsUpTo(S, n) == UNION { [1..k -> S] : k \in 0..n }

Configs ==
    [locations : SeqsUpTo(LocPool, MaxLocs), projection_center : PcPool]

\* What the libraries outside the repository do where the code leaves it to them:
\* the centroid of an empty geometry (shapely raises, or yields NaN coordinates) and
\* an AEQD CRS whose center is not a valid latitude/longitude (pyproj/PROJ raises, or
\* accepts it).
Envs == [emptyCentroid : {"raise", "nan"}, badCenter : {"raise", "accept"}]

(***************************************************************************)
(* The loader: main() of both scripts and its helpers.  A helper returns   *)
(* [err, val]: err is "none", or the exception it raises.                  *)
(***************************************************************************)
Ok(v) == [err |-> "none", val |-> v]

\* The(S): the element of a one-element set.  The({ e(x) : x \in {v} }) is e(v)
\* with v computed once, the way a local variable of the code holds a value.
The(S) == CHOOSE x \in S : TRUE

Raise(e) == [err |-> e, val |-> <<>>]

\* float(x) of a YAML scalar
Float(x) == IF x.t = "bad" THEN Raise("ValueError") ELSE Ok(x.v)

\* loc.get(key), for the optional keys; a missing key gives the falsy default
WhereOf(loc) == IF "where" \in loc.keys THEN loc.where ELSE 0

NameOf(loc) == IF "name" \in loc.keys /\ loc.name # "" THEN loc.name ELSE loc.id

\* gdf.query(where)
Query(rows, where) == SelectSeq(rows, LAMBDA r : r.era = where)

\* _read_location: a GeoDataFrame is [crs, geometry], geometry the column of the rows
ReadLocation(loc) ==
    LET f == Files[loc.path]
        rows == IF WhereOf(loc) # 0 THEN Query(f.rows, WhereOf(loc)) ELSE f.rows
    IN  IF ~f.exists THEN Raise("FileNotFoundError")
        ELSE IF rows = <<>> THEN Raise("ValueError")
        ELSE Ok([crs |-> f.crs, geometry |-> [i \in 1..Len(rows) |-> rows[i].geometry]])

\* _ensure_wgs84: the files of the model are in WGS84 or carry no CRS, so the
\* reprojection leaves the coordinates as they are
EnsureWgs84(gdf) == [gdf EXCEPT !.crs = "EPSG:4326"]

\* Variant: a location that cannot be read is skipped.
RECURSIVE ReadAllSkipping(_, _, _)
ReadAllSkipping(locs, i, raw_layers) ==
    IF i > Len(locs) THEN Ok(raw_layers)
    ELSE IF ~({"id", "path"} \subseteq locs[i].keys)
    THEN ReadAllSkipping(locs, i + 1, raw_layers)
    ELSE The({ IF r.err # "none" THEN ReadAllSkipping(locs, i + 1, raw_layers)
               ELSE ReadAllSkipping(locs, i + 1, Append(raw_layers, r.val)) :
               r \in {ReadLocation(locs[i])} })

\* the loop of main() that reads every location: raw_layers, or the first exception
RECURSIVE ReadAll(_, _, _)
ReadAll(locs, i, raw_layers) ==
    IF i > Len(locs) THEN Ok(raw_layers)
    ELSE IF ~({"id", "path"} \subseteq locs[i].keys) THEN Raise("ValueError")
    ELSE The({ IF r.err # "none" THEN r
               ELSE ReadAll(locs, i + 1, Append(raw_layers, r.val)) :
               r \in {ReadLocation(locs[i])} })

\* every coordinate of the non-null geometries of a layer, in order
RECURSIVE AllCoords(_, _)
AllCoords(geoms, i) ==
    IF i > Len(geoms) THEN <<>>
    ELSE geoms[i].coords \o AllCoords(geoms, i + 1)

RECURSIVE SumOf(_, _, _)
SumOf(cs, k, i) == IF i > Len(cs) THEN 0 ELSE cs[i][k] + SumOf(cs, k, i + 1)

\* geometry.unary_union.centroid, as (y, x): the mean of the vertices; of an empty
\* union, what the library does
Centroid(gdf, env) ==
    LET cs == AllCoords(gdf.geometry, 1)
    IN  IF cs = <<>>
        THEN IF env.emptyCentroid = "raise" THEN Raise("IndexError") ELSE Ok(<<NaN, NaN>>)
        ELSE Ok(<<SumOf(cs, 2, 1) \div Len(cs), SumOf(cs, 1, 1) \div Len(cs)>>)

\* _pick_center: (lat0, lon0)
PickCenter(cfg, wgs_layers, env) ==
    LET pc == cfg.projection_center
    IN  IF pc.isDict /\ "lat" \in pc.keys /\ "lon" \in pc.keys
        THEN IF Float(pc.lat).err # "none" THEN Float(pc.lat)
             ELSE IF Float(pc.lon).err # "none" THEN Float(pc.lon)
             ELSE Ok(<<Float(pc.lat).val, Float(pc.lon).val>>)
        ELSE IF wgs_layers = <<>> THEN Raise("IndexError")
        ELSE Centroid(wgs_layers[1], env)

InLatLonBounds(lat, lon) ==
    /\ ~IsNaN(lat) /\ ~IsNaN(lon)
    /\ lat >= -90 /\ lat <= 90
    /\ lon >= -180 /\ lon <= 180

\* Variant: the center is handed over as (lon, lat).
MakeAeqdCrsSwapped(lat0, lon0, env) ==
    IF ~InLatLonBounds(lat0, lon0) /\ env.badCenter = "raise"
    THEN Raise("CRSError")
    ELSE Ok([lat_0 |-> lon0, lon_0 |-> lat0])

\* _make_aeqd_crs: the AEQD CRS centered at (lat0, lon0); the code passes any center
\* on, and the library decides about one that is no valid latitude/longitude
MakeAeqdCrs(lat0, lon0, env) ==
    IF ~InLatLonBounds(lat0, lon0) /\ env.badCenter = "raise"
    THEN Raise("CRSError")
    ELSE Ok([lat_0 |-> lat0, lon_0 |-> lon0])

\* one coordinate (lon, lat) in the plane of the CRS: planar units from the center
Aeqd(crs, p) == <<Sub(p[1], crs.lon_0), Sub(p[2], crs.lat_0)>>

\* g_wgs.to_crs(aeqd): every coordinate of every geometry; null and empty
\* geometries stay what they are
ToCrs(gdf, crs) ==
    [crs |-> crs,
     geometry |-> [i \in 1..Len(gdf.geometry) |->
        [kind |-> gdf.geometry[i].kind,
         coords |-> [j \in 1..Len(gdf.geometry[i].coords) |->
                        Aeqd(crs, gdf.geometry[i].coords[j])]]]]

Feature(props, g) ==
    [type |-> "Feature", properties |-> props,
     geometry |-> [type |-> "LineString", coordinates |-> g.coords]]

\* Variant: each feature is put in front of the list.
RECURSIVE FeatsFromPrepending(_, _, _, _)
FeatsFromPrepending(geoms, props, i, feats) ==
    IF i > Len(geoms) THEN feats
    ELSE IF IsNoneOrEmpty(geoms[i]) THEN FeatsFromPrepending(geoms, props, i + 1, feats)
    ELSE FeatsFromPrepending(geoms, props, i + 1, <<Feature(props, geoms[i])>> \o feats)

\* the loop of _geom_to_geojson_feature_collection and of _to_feature_collection
RECURSIVE FeatsFrom(_, _, _, _)
FeatsFrom(geoms, props, i, feats) ==
    IF i > Len(geoms) THEN feats
    ELSE IF IsNoneOrEmpty(geoms[i]) THEN FeatsFrom(geoms, props, i + 1, feats)
    ELSE FeatsFrom(geoms, props, i + 1, Append(feats, Feature(props, geoms[i])))

\* the default palette of main()
Colors ==
    << "#1f77b4", "#ff7f0e", "#2ca02c", "#d62728", "#9467bd",
       "#8c564b", "#e377c2", "#7f7f7f", "#bcbd22", "#17becf" >>

\* loc.get("color") or colors[i % len(colors)], i counted from 0
ColorOf(loc, i) ==
    IF "color" \in loc.keys /\ loc.color # "" THEN loc.color
    ELSE Colors[(i % Len(Colors)) + 1]

\* main() from the CRS on: wgs_layers are the converted layers, c the center
PrepareCrs(wgs_layers, c, env) ==
    The({ IF aeqd.err # "none" THEN aeqd
          ELSE Ok([wgs_layers |-> wgs_layers, lat0 |-> c[1], lon0 |-> c[2],
                   aeqd |-> aeqd.val]) :
          aeqd \in {MakeAeqdCrs(c[1], c[2], env)} })

\* main() from the conversion to WGS84 on: raw_layers are the layers read
PrepareCenter(cfg, raw_layers, env) ==
    The({ The({ IF c.err # "none" THEN c ELSE PrepareCrs(wgs_layers, c.val, env) :
                c \in {PickCenter(cfg, wgs_layers, env)} }) :
          wgs_layers \in {[i \in 1..Len(raw_layers) |-> EnsureWgs84(raw_layers[i])]} })

\* main() up to the CRS, the same in both scripts: the locations are read and
\* converted, then the center is picked and the CRS made
Prepare(cfg, env) ==
    IF cfg.locations = <<>> THEN Raise("ValueError")
    ELSE The({ IF raw.err # "none" THEN raw ELSE PrepareCenter(cfg, raw.val, env) :
               raw \in {ReadAll(cfg.locations, 1, <<>>)} })

\* run_overlay_app.main: one entry of locations_payload; g_m is g_wgs.to_crs(aeqd)
AppLocation(loc, i, g_wgs, g_m) ==
    [id |-> loc.id, name |-> NameOf(loc), color |-> ColorOf(loc, i),
     projected |-> [type |-> "FeatureCollection",
                    features |-> FeatsFrom(g_m.geometry,
                                    [id |-> loc.id, name |-> NameOf(loc)], 1, <<>>)],
     wgs84 |-> [type |-> "FeatureCollection",
                features |-> FeatsFrom(g_wgs.geometry,
                                [id |-> loc.id, name |-> NameOf(loc)], 1, <<>>)]]

\* the loop of run_overlay_app.main over zip(locs, wgs_layers)
AppLocations(locs, wgs_layers, aeqd) ==
    [i \in 1..Min(Len(locs), Len(wgs_layers)) |->
        The({ AppLocation(locs[i], i - 1, wgs_layers[i], g_m) :
              g_m \in {ToCrs(wgs_layers[i], aeqd)} })]

\* run_overlay_app.main: [exit, files], files what _write_app_files wrote
AppMain(cfg, env) ==
    The({ IF p.err # "none" THEN [exit |-> p.err, files |-> <<>>]
          ELSE [exit |-> "ok",
                files |-> << [center |-> [lat |-> p.val.lat0, lon |-> p.val.lon0],
                              locations |-> AppLocations(cfg.locations, p.val.wgs_layers,
                                                         p.val.aeqd)] >>] :
          p \in {Prepare(cfg, env)} })

\* generate_overlay_html.main: one entry of locations_payload, and the projected
\* features of that location
HtmlProps(loc, i) == [id |-> loc.id, name |-> NameOf(loc), color |-> ColorOf(loc, i)]

HtmlLocation(loc, i, g_wgs) ==
    [id |-> loc.id, name |-> NameOf(loc), color |-> ColorOf(loc, i),
     wgs84 |-> [type |-> "FeatureCollection",
                features |-> FeatsFrom(g_wgs.geometry, HtmlProps(loc, i), 1, <<>>)]]

HtmlProjected(loc, i, g_wgs, aeqd) ==
    The({ FeatsFrom(g_m.geometry, HtmlProps(loc, i), 1, <<>>) :
          g_m \in {ToCrs(g_wgs, aeqd)} })

\* projected_features.extend(proj_fc["features"]) over the locations from i on
RECURSIVE HtmlProjectedFeatures(_, _, _, _)
HtmlProjectedFeatures(locs, wgs_layers, aeqd, i) ==
    IF i > Min(Len(locs), Len(wgs_layers)) THEN <<>>
    ELSE HtmlProjected(locs[i], i - 1, wgs_layers[i], aeqd)
         \o HtmlProjectedFeatures(locs, wgs_layers, aeqd, i + 1)

\* generate_overlay_html.main: [exit, files], files the payload inlined in the HTML
HtmlMain(cfg, env) ==
    The({ IF p.err # "none" THEN [exit |-> p.err, files |-> <<>>]
          ELSE [exit |-> "ok",
                files |-> << [title |-> "geodesic-overlay",
                              center |-> [lat |-> p.val.lat0, lon |-> p.val.lon0],
                              projected |-> [type |-> "FeatureCollection",
                                    features |-> HtmlProjectedFeatures(cfg.locations,
                                                    p.val.wgs_layers, p.val.aeqd, 1)],
                              locations |->
                                    [i \in 1..Min(Len(cfg.locations), Len(p.val.wgs_layers)) |->
                                        HtmlLocation(cfg.locations[i], i - 1,
                                                     p.val.wgs_layers[i])]] >>] :
          p \in {Prepare(cfg, env)} })

(***************************************************************************)
(* The browser page of run_overlay_app.py (_APP_HTML)                      *)
(***************************************************************************)
\* const W = 1200, H = 800
W == 1200

H == 800

\* uniqId(prefix): prefix + "_" + the hex digits of Math.random(); the digits hold
\* no "_", so the string is the pair of its two parts.  RandomHex: the digit
\* strings of the values of Math.random() the model draws from.
RandomHex == {"8c2f", "e01b"}

uniqId(prefix, hex) == [prefix |-> prefix, hex |-> hex]

\* getLocById: the place in DATA.locations of the first location with that id, 0
\* for undefined.  A location object is referred to by its place: the page never
\* changes DATA.
RECURSIVE FindLoc(_, _, _)
FindLoc(locations, id, i) ==
    IF i > Len(locations) THEN 0
    ELSE IF locations[i].id = id THEN i
    ELSE FindLoc(locations, id, i + 1)

getLocById(data, id) == FindLoc(data[1].locations, id, 1)

\* The identity of a JS layer object.  Nothing in the page reads an identity but
\* the closures of the overlay groups, which are rebuilt with the list; so the
\* objects are named by their place in the list each time it is rebuilt.
NewObj(layers) == Len(layers) + 1

Renamed(layers) == [i \in 1..Len(layers) |-> [layers[i] EXCEPT !.obj = i]]

\* Variant: a new instance takes over the offset of an active instance of the
\* same location.
NewLayerCloned(data, loc, instId, obj) ==
    LET same == { i \in 1..Len(activeLayers) : activeLayers[i].loc = loc }
        from == IF same = {} THEN 0 ELSE CHOOSE i \in same : TRUE
    IN  [instId |-> instId, id |-> data[1].locations[loc].id,
         name |-> data[1].locations[loc].name,
         color |-> data[1].locations[loc].color, loc |-> loc,
         tx |-> IF from = 0 THEN 0 ELSE activeLayers[from].tx,
         ty |-> IF from = 0 THEN 0 ELSE activeLayers[from].ty,
         obj |-> obj]

\* the object addSelected pushes; loc is the location object (its place in
\* DATA.locations), to which projected and wgs84 refer
NewLayer(data, loc, instId, obj) ==
    [instId |-> instId, id |-> data[1].locations[loc].id,
     name |-> IF data[1].locations[loc].name # "" THEN data[1].locations[loc].name
              ELSE data[1].locations[loc].id,
     color |-> data[1].locations[loc].color, loc |-> loc,
     tx |-> 0, ty |-> 0, obj |-> obj]

\* layer.projected and layer.wgs84
projected(layer) == DATA[1].locations[layer.loc].projected

wgs84(layer) == DATA[1].locations[layer.loc].wgs84

\* renderLayerList: one chip per layer; its Remove button captures l.instId
renderLayerList(layers) ==
    [i \in 1..Len(layers) |->
        [color |-> layers[i].color, text |-> layers[i].name, instId |-> layers[i].instId]]

\* Variant: only the features of the first layer are fitted.
allFeaturesOfFirst(layers, i) ==
    [j \in 1..Len(projected(layers[1]).features) |->
        [geometry |-> projected(layers[1]).features[j].geometry,
         instId |-> layers[1].instId, color |-> layers[1].color]]

\* activeLayers.flatMap(l => l.projected.features.map(...)): the features of all
\* layers, each tagged with its layer
RECURSIVE allFeatures(_, _)
allFeatures(layers, i) ==
    IF i > Len(layers) THEN <<>>
    ELSE [j \in 1..Len(projected(layers[i]).features) |->
            [geometry |-> projected(layers[i]).features[j].geometry,
             instId |-> layers[i].instId, color |-> layers[i].color]]
         \o allFeatures(layers, i + 1)

\* d3's bounds stream over a feature collection: min and max of every coordinate,
\* [empty] when it saw none
RECURSIVE BoundsFrom(_, _, _, _)
BoundsFrom(features, i, j, b) ==
    IF i > Len(features) THEN b
    ELSE IF j > Len(features[i].geometry.coordinates) THEN BoundsFrom(features, i + 1, 1, b)
    ELSE LET p == features[i].geometry.coordinates[j]
         IN  BoundsFrom(features, i, j + 1,
                IF b.empty THEN [empty |-> FALSE, x0 |-> p[1], y0 |-> p[2], x1 |-> p[1], y1 |-> p[2]]
                ELSE [empty |-> FALSE, x0 |-> Min(b.x0, p[1]), y0 |-> Min(b.y0, p[2]),
                      x1 |-> Max(b.x1, p[1]), y1 |-> Max(b.y1, p[2])])

NoBounds == [empty |-> TRUE, x0 |-> 0, y0 |-> 0, x1 |-> 0, y1 |-> 0]

\* no projection: renderOverlay returned before fitting one
NoFit == [kind |-> "none", finite |-> FALSE, kn |-> 0, kd |-> 1, sx |-> 0, sy |-> 0]

\* d3.geoIdentity().reflectY(true).fitSize([W, H], fc): the uniform scale
\* k = kn/kd = min(W/w, H/h) of the bounds of fc and the translation that centers
\* them (sx, sy: the sums x0 + x1 and y0 + y1).  Bounds without extent (no
\* coordinate, or a single point) give a scale that is no finite number.
fitBounds(b) ==
    LET w == b.x1 - b.x0
        h == b.y1 - b.y0
    IN  IF b.empty \/ (w = 0 /\ h = 0)
        THEN [kind |-> "fit", finite |-> FALSE, kn |-> 0, kd |-> 1, sx |-> 0, sy |-> 0]
        ELSE IF h = 0 \/ (w # 0 /\ W * h <= H * w)
        THEN [kind |-> "fit", finite |-> TRUE, kn |-> W, kd |-> w,
              sx |-> b.x0 + b.x1, sy |-> b.y0 + b.y1]
        ELSE [kind |-> "fit", finite |-> TRUE, kn |-> H, kd |-> h,
              sx |-> b.x0 + b.x1, sy |-> b.y0 + b.y1]

fitSize(features) == The({ fitBounds(b) : b \in {BoundsFrom(features, 1, 1, NoBounds)} })

\* the projection applied to one planar point: viewport pixels (rounded down), y
\* reflected
ProjectPoint(proj, p) ==
    IF ~proj.finite THEN <<NaN, NaN>>
    ELSE << (2 * proj.kn * p[1] - proj.kn * proj.sx + W * proj.kd) \div (2 * proj.kd),
            (proj.kn * proj.sy - 2 * proj.kn * p[2] + H * proj.kd) \div (2 * proj.kd) >>

\* path(d): the "d" attribute of one feature, its points in viewport space
pathD(proj, feature) ==
    [j \in 1..Len(feature.geometry.coordinates) |->
        ProjectPoint(proj, feature.geometry.coordinates[j])]

\* Variant: without the early return on an empty list.
overlayProjectionUnguarded(layers) ==
    The({ fitSize(fc) : fc \in {allFeatures(layers, 1)} })

\* the projection renderOverlay fits: none when there is no active layer
overlayProjection(layers) ==
    IF Len(layers) = 0 THEN NoFit
    ELSE The({ fitSize(fc) : fc \in {allFeatures(layers, 1)} })

\* Variant: every group is drawn at translate(0, 0).
overlayGroupAtZero(layer, proj) ==
    [instId |-> layer.instId,
     transform |-> <<0, 0>>,
     paths |-> [j \in 1..Len(projected(layer).features) |->
                  [d |-> pathD(proj, projected(layer).features[j]), stroke |-> layer.color]],
     layer |-> layer.obj]

\* the <g> renderOverlay appends for one layer; layer is the object its drag
\* handler closes over
overlayGroup(layer, proj) ==
    [instId |-> layer.instId,
     transform |-> <<layer.tx, layer.ty>>,
     paths |-> [j \in 1..Len(projected(layer).features) |->
                  [d |-> pathD(proj, projected(layer).features[j]), stroke |-> layer.color]],
     layer |-> layer.obj]

\* renderOverlay: the children of the svg after it, and the projection it fitted
renderOverlay(layers) ==
    The({ [svg |-> IF Len(layers) = 0 THEN <<>>
                   ELSE [i \in 1..Len(layers) |-> overlayGroup(layers[i], proj)],
           projection |-> proj] :
          proj \in {overlayProjection(layers)} })

\* the bounds of all wgs84 features put on the map (bounds.reduce(extend))
RECURSIVE wgsFeatures(_, _)
wgsFeatures(layers, i) ==
    IF i > Len(layers) THEN <<>>
    ELSE wgs84(layers[i]).features \o wgsFeatures(layers, i + 1)

CenterView(data) == [kind |-> "center", lat |-> data[1].center.lat, lon |-> data[1].center.lon,
                     box |-> NoBounds]

\* renderMap: the map and leafletLayers after it
renderMap(layers, m, data) ==
    IF Len(layers) = 0
    THEN [map |-> [created |-> TRUE, view |-> CenterView(data)], leafletLayers |-> <<>>]
    ELSE The({ [map |-> [created |-> TRUE,
                         view |-> IF b.empty
                                  THEN (IF m.created THEN m.view ELSE CenterView(data))
                                  ELSE [kind |-> "bounds", lat |-> 0, lon |-> 0, box |-> b]],
                leafletLayers |-> [i \in 1..Len(layers) |->
                      [loc |-> layers[i].loc, color |-> layers[i].color]]] :
               b \in {BoundsFrom(wgsFeatures(layers, 1), 1, 1, NoBounds)} })

\* render(): the page for the given activeLayers
Render(layers) ==
    /\ layerList' = renderLayerList(layers)
    /\ \E o \in {renderOverlay(layers)} : svg' = o.svg /\ projection' = o.projection
    /\ IF globeChecked
       THEN \E m \in {renderMap(layers, map, DATA)} :
                map' = m.map /\ leafletLayers' = m.leafletLayers
       ELSE UNCHANGED <<map, leafletLayers>>

(***************************************************************************)
(* History.  hist is written by the operations of the page and read by     *)
(* none of them.  It tells what the last operations were: "removed" when   *)
(* the last one removed an instance of the source WatchId whose offset was *)
(* not (0,0); "readded" when the last two were such a removal and then an  *)
(* add of that source; "unknown" when the last one was an add that named   *)
(* no location; "none" otherwise.                                          *)
(***************************************************************************)
WatchId == "a"

NoHist == "none"

Moved(layers) ==
    { i \in 1..Len(layers) :
        layers[i].id = WatchId /\ (layers[i].tx # 0 \/ layers[i].ty # 0) }

HistAfterRemove(removed) == IF Moved(removed) = {} THEN NoHist ELSE "removed"

HistAfterAdd(id, found) ==
    IF ~found THEN "unknown"
    ELSE IF hist = "removed" /\ id = WatchId THEN "readded"
    ELSE NoHist

(***************************************************************************)
(* Operations of the loader                                                *)
(***************************************************************************)
\* python run_overlay_app.py --config ...: main() up to the files it writes
RunOverlayApp(env) ==
    /\ appExit = "none"
    /\ \E r \in {AppMain(config, env)} : appExit' = r.exit /\ appFiles' = r.files
    /\ UNCHANGED <<config, htmlExit, htmlFiles, pageVars, hist>>

\* python generate_overlay_html.py --config ... --out ...
GenerateOverlayHtml(env) ==
    /\ htmlExit = "none"
    /\ \E r \in {HtmlMain(config, env)} : htmlExit' = r.exit /\ htmlFiles' = r.files
    /\ UNCHANGED <<config, appExit, appFiles, pageVars, hist>>

(***************************************************************************)
(* Operations of the page                                                  *)
(***************************************************************************)
\* init(): fetch ./data/locations.json, fill the select, render().  json.dumps
\* writes a NaN center as the token NaN, which res.json() rejects: init() then
\* ends at its second line.
PageInit ==
    /\ DATA = <<>>
    /\ appFiles # <<>>
    /\ ~IsNaN(appFiles[1].center.lat) /\ ~IsNaN(appFiles[1].center.lon)
    /\ DATA' = appFiles
    /\ Render(activeLayers)
    /\ hist' = NoHist
    /\ UNCHANGED <<loadVars, activeLayers, globeChecked>>

\* the option values of #locSelect; the select holds one of them, or "" when no
\* option is selected
SelectValues ==
    IF DATA = <<>> THEN {}
    ELSE { DATA[1].locations[i].id : i \in 1..Len(DATA[1].locations) }

\* addSelected(), the select holding id and Math.random() giving hex
AddSelected(id, hex) ==
    /\ DATA # <<>>
    /\ \E loc \in {getLocById(DATA, id)} :
           IF loc = 0
           THEN /\ hist' = HistAfterAdd(id, FALSE)
                /\ UNCHANGED <<loadVars, pageVars>>
           ELSE /\ \E layers \in {Append(activeLayers,
                                  NewLayer(DATA, loc, uniqId(id, hex), NewObj(activeLayers)))} :
                      activeLayers' = layers /\ Render(layers)
                /\ hist' = HistAfterAdd(id, TRUE)
                /\ UNCHANGED <<loadVars, DATA, globeChecked>>

\* activeLayers.filter(l => l.instId !== instId)
filterOut(layers, instId) == SelectSeq(layers, LAMBDA l : l.instId # instId)

\* removeLayer(instId), called by the Remove button of chip c
RemoveLayer(c) ==
    /\ c \in 1..Len(layerList)
    /\ \E layers \in {Renamed(filterOut(activeLayers, layerList[c].instId))} :
          activeLayers' = layers /\ Render(layers)
    /\ hist' = HistAfterRemove(SelectSeq(activeLayers,
                                 LAMBDA l : l.instId = layerList[c].instId))
    /\ UNCHANGED <<loadVars, DATA, globeChecked>>

\* the drag gestures the model offers, (event.dx, event.dy)
DragDeltas == { <<10, -5>>, <<-10, 5>> }

\* Variant: the handler looks the layer up by its instId instead of holding the
\* object.
dragLayerByInstId(layers, obj, dx, dy) ==
    [i \in 1..Len(layers) |->
        IF \E k \in 1..Len(layers) : layers[k].obj = obj /\ layers[k].instId = layers[i].instId
        THEN [layers[i] EXCEPT !.tx = @ + dx, !.ty = @ + dy]
        ELSE layers[i]]

\* layer.tx += event.dx; layer.ty += event.dy, on the layer object obj
dragLayer(layers, obj, dx, dy) ==
    [i \in 1..Len(layers) |->
        IF layers[i].obj = obj
        THEN [layers[i] EXCEPT !.tx = @ + dx, !.ty = @ + dy]
        ELSE layers[i]]

\* the layer object obj, as activeLayers holds it
LayerOf(layers, obj) == layers[CHOOSE i \in 1..Len(layers) : layers[i].obj = obj]

\* Variant: the handler redraws the paths of the group at the new offset.
dragGroupRedrawn(groups, g, layer) ==
    [groups EXCEPT ![g].transform = <<layer.tx, layer.ty>>,
                   ![g].paths = [j \in 1..Len(@) |->
                        [@[j] EXCEPT !.d = [k \in 1..Len(@) |->
                            <<@[k][1] + layer.tx, @[k][2] + layer.ty>>]]]]

\* g.attr("transform", `translate(${layer.tx}, ${layer.ty})`) on group g
dragGroup(groups, g, layer) == [groups EXCEPT ![g].transform = <<layer.tx, layer.ty>>]

\* one "drag" event of d3.drag() on group g of the svg; the model keeps the
\* offsets it explores within MaxOffset
Drag(g, dx, dy) ==
    /\ g \in 1..Len(svg)
    /\ \E i \in 1..Len(activeLayers) :
          /\ activeLayers[i].obj = svg[g].layer
          /\ activeLayers[i].tx + dx \in 0..MaxOffset
          /\ activeLayers[i].ty + dy \in (-MaxOffset)..0
    /\ \E layers \in {dragLayer(activeLayers, svg[g].layer, dx, dy)} :
          /\ activeLayers' = layers
          /\ svg' = dragGroup(svg, g, LayerOf(layers, svg[g].layer))
    /\ hist' = NoHist
    /\ UNCHANGED <<loadVars, DATA, layerList, projection, globeChecked, map,
                   leafletLayers>>

\* setGlobeVisible(on), the change handler of #globeToggle
SetGlobeVisible(on) ==
    /\ DATA # <<>>
    /\ on = ~globeChecked
    /\ globeChecked' = on
    /\ IF on
       THEN \E m \in {renderMap(activeLayers, map, DATA)} :
                map' = m.map /\ leafletLayers' = m.leafletLayers
       ELSE UNCHANGED <<map, leafletLayers>>
    /\ hist' = NoHist
    /\ UNCHANGED <<loadVars, DATA, activeLayers, layerList, svg, projection>>

(***************************************************************************)
(* Specifications                                                          *)
(***************************************************************************)
NoMap == [created |-> FALSE,
          view |-> [kind |-> "none", lat |-> 0, lon |-> 0, box |-> NoBounds]]

PageStart ==
    /\ DATA = <<>>
    /\ activeLayers = <<>>
    /\ layerList = <<>>
    /\ svg = <<>>
    /\ projection = NoFit
    /\ globeChecked = FALSE
    /\ map = NoMap
    /\ leafletLayers = <<>>
    /\ hist = NoHist

\* SpecLoad: any config of the pool; both scripts run; the page opens and takes
\* its first add, and adds that name no location.
InitLoad ==
    /\ config \in Configs
    /\ appExit = "none" /\ appFiles = <<>>
    /\ htmlExit = "none" /\ htmlFiles = <<>>
    /\ PageStart

NextLoad ==
    \/ \E env \in Envs : RunOverlayApp(env)
    \/ \E env \in Envs : GenerateOverlayHtml(env)
    \/ PageInit
    \/ \E id \in SelectValues \cup {""}, hex \in RandomHex :
          /\ DATA # <<>>
          /\ IF id \in SelectValues THEN activeLayers = <<>> ELSE Len(activeLayers) <= 1
          /\ AddSelected(id, hex)

SpecLoad == InitLoad /\ [][NextLoad]_vars

\* Spec: the page session over the app written for SessionConfig.
SessionConfig ==
    [locations |-> << Loc(FullKeys, "a", "a.shp", 0, "", ""),
                      Loc(FullKeys \cup {"name", "color"}, "b", "b.gpkg", 0, "Bravo", "#000000"),
                      Loc(FullKeys, "n", "n.shp", 0, "", "") >>,
     projection_center |-> Pc(TRUE, {"lat", "lon"}, Num(1), Num(3))]

SessionEnv == [emptyCentroid |-> "raise", badCenter |-> "raise"]

Init ==
    /\ config = SessionConfig
    /\ \E r \in {AppMain(SessionConfig, SessionEnv)} : appExit = r.exit /\ appFiles = r.files
    /\ htmlExit = "none" /\ htmlFiles = <<>>
    /\ PageStart

Next ==
    \/ PageInit
    \/ \E id \in SelectValues, hex \in RandomHex :
          Len(activeLayers) < MaxLayers /\ AddSelected(id, hex)
    \/ \E c \in 1..Len(layerList) : RemoveLayer(c)
    \/ \E g \in 1..Len(svg), d \in DragDeltas : Drag(g, d[1], d[2])
    \/ \E on \in BOOLEAN : SetGlobeVisible(on)

Spec == Init /\ [][Next]_vars

(***************************************************************************)
(* Properties of the page (Spec)                                           *)
(***************************************************************************)
Last(q) == q[Len(q)]

SameSource(i, j) == activeLayers[i].id = activeLayers[j].id

\* C1: a drag delta (dx, dy) on the group of one instance adds exactly (dx, dy)
\* to the offset of that instance and leaves every other active instance as it
\* was, those of the same source location included.
C1_DragMovesOnlyItsInstance ==
    [][\A g \in 1..Len(svg), d \in DragDeltas :
          Drag(g, d[1], d[2]) =>
              /\ Len(activeLayers') = Len(activeLayers)
              /\ svg[g].instId = activeLayers[g].instId
              /\ \A i \in 1..Len(activeLayers) :
                    activeLayers'[i] =
                        IF i = g
                        THEN [activeLayers[i] EXCEPT !.tx = @ + d[1], !.ty = @ + d[2]]
                        ELSE activeLayers[i]]_vars

\* C1 witness: a source added twice, the first instance dragged by (10,-5), the
\* second still at (0,0).
C1_Witness ==
    /\ Len(activeLayers) = 2
    /\ SameSource(1, 2)
    /\ activeLayers[1].tx = 10 /\ activeLayers[1].ty = -5
    /\ activeLayers[2].tx = 0 /\ activeLayers[2].ty = 0

\* C2: every add appends an instance whose offset is (0,0) and changes no
\* instance there was, whatever was added, dragged or removed before; so a source
\* added again after its dragged instance was removed starts at (0,0).
C2_NewInstanceStartsAtZero ==
    [][Len(activeLayers') > Len(activeLayers) =>
          /\ Len(activeLayers') = Len(activeLayers) + 1
          /\ Last(activeLayers').tx = 0
          /\ Last(activeLayers').ty = 0]_vars

\* C2 witness: the watched source was removed with a non-zero offset and has just
\* been added again, at (0,0).
C2_Witness ==
    /\ hist = "readded"
    /\ Last(activeLayers).id = WatchId
    /\ Last(activeLayers).tx = 0 /\ Last(activeLayers).ty = 0

\* C3 (as claimed): no two active instances share an instId.
C3_UniqueInstIds ==
    \A i, j \in 1..Len(activeLayers) :
        i # j => activeLayers[i].instId # activeLayers[j].instId

\* C4: a drag leaves the fitted projection, DATA (the projected geometry of every
\* location) and the paths of every group as they were, and changes the transform
\* of the dragged group only, to the new offset of its instance.
C4_DragLeavesFitAndPaths ==
    [][\A g \in 1..Len(svg), d \in DragDeltas :
          Drag(g, d[1], d[2]) =>
              /\ projection' = projection
              /\ DATA' = DATA
              /\ Len(svg') = Len(svg)
              /\ \A j \in 1..Len(svg) :
                    /\ svg'[j].paths = svg[j].paths
                    /\ j # g => svg'[j] = svg[j]
              /\ svg'[g].transform = <<activeLayers'[g].tx, activeLayers'[g].ty>>
              /\ svg'[g].transform # svg[g].transform]_vars

\* C4 witness: two instances of different sources drawn through a finite fit, the
\* first dragged and the second not.
C4_Witness ==
    /\ Len(svg) = 2
    /\ ~SameSource(1, 2)
    /\ projection.finite
    /\ svg[1].transform = <<10, -5>>
    /\ svg[2].transform = <<0, 0>>
    /\ svg[2].paths # <<>>

\* every projected coordinate of the active instances
ActiveCoords ==
    UNION { UNION { { projected(activeLayers[i]).features[j].geometry.coordinates[k] :
                        k \in 1..Len(projected(activeLayers[i]).features[j].geometry.coordinates) } :
                    j \in 1..Len(projected(activeLayers[i]).features) } :
            i \in 1..Len(activeLayers) }

Lowest(S) == CHOOSE v \in S : \A u \in S : v <= u

Highest(S) == CHOOSE v \in S : \A u \in S : v >= u

\* proj is the fit of the coordinate set cs into the W x H viewport: the uniform
\* scale kn/kd makes the bounding box of cs fit and touch the viewport in one
\* direction, and the box is centered; a box without extent has no finite fit.
IsFitOf(proj, cs) ==
    /\ proj.kind = "fit"
    /\ IF cs = {} THEN ~proj.finite
       ELSE LET xs == { p[1] : p \in cs }
                ys == { p[2] : p \in cs }
                w == Highest(xs) - Lowest(xs)
                h == Highest(ys) - Lowest(ys)
            IN  IF w = 0 /\ h = 0 THEN ~proj.finite
                ELSE /\ proj.finite
                     /\ proj.kd > 0
                     /\ proj.kn * w <= W * proj.kd
                     /\ proj.kn * h <= H * proj.kd
                     /\ (proj.kn * w = W * proj.kd \/ proj.kn * h = H * proj.kd)
                     /\ proj.sx = Lowest(xs) + Highest(xs)
                     /\ proj.sy = Lowest(ys) + Highest(ys)

\* C5: whenever instances are active, the projection in use is the fit of the
\* union of the projected geometry of exactly the active instances.
C5_FitIsOfActiveSet ==
    (DATA # <<>> /\ activeLayers # <<>>) => IsFitOf(projection, ActiveCoords)

\* C5 witness: a dragged instance of the watched source has just been removed and
\* an instance of another source with a finite fit remains.
C5_Witness ==
    /\ hist = "removed"
    /\ Len(activeLayers) = 1
    /\ activeLayers[1].id # WatchId
    /\ projection.finite

ExplicitOrigin ==
    /\ config.projection_center.isDict
    /\ {"lat", "lon"} \subseteq config.projection_center.keys
    /\ config.projection_center.lat.t # "bad"
    /\ config.projection_center.lon.t # "bad"

GivenLat == config.projection_center.lat.v

GivenLon == config.projection_center.lon.v

Centers == { appFiles[i].center : i \in 1..Len(appFiles) }
              \cup { htmlFiles[i].center : i \in 1..Len(htmlFiles) }

\* C7 (as claimed): an explicit origin becomes the center of what is written only
\* when it lies within [-90,90] x [-180,180]; outside, the run is rejected.
C7_ExplicitOriginValidated ==
    ExplicitOrigin =>
        \A c \in Centers :
            /\ c.lat = GivenLat /\ c.lon = GivenLon
            /\ InLatLonBounds(c.lat, c.lon)

\* the rows of the file of a location that its "where" filter keeps
KeptRows(loc) ==
    SelectSeq(Files[loc.path].rows,
              LAMBDA r : ("where" \in loc.keys /\ loc.where # 0) => r.era = loc.where)

\* the geometries of a location that hold coordinates, in file order
KeptGeoms(loc) ==
    SelectSeq([i \in 1..Len(KeptRows(loc)) |-> KeptRows(loc)[i].geometry],
              LAMBDA g : g.kind = "geom" /\ g.coords # <<>>)

\* C8 (as claimed): a layer without any coordinate is rejected: no run that
\* writes its output was given one, so no written location has an empty feature
\* collection.
C8_EmptyLayerRejected ==
    /\ \A i \in 1..Len(config.locations) :
          ({"id", "path"} \subseteq config.locations[i].keys
              /\ KeptGeoms(config.locations[i]) = <<>>)
            => (appExit # "ok" /\ htmlExit # "ok")
    /\ \A i \in 1..Len(appFiles) : \A k \in 1..Len(appFiles[i].locations) :
          /\ appFiles[i].locations[k].projected.features # <<>>
          /\ appFiles[i].locations[k].wgs84.features # <<>>
    /\ \A i \in 1..Len(htmlFiles) : \A k \in 1..Len(htmlFiles[i].locations) :
          htmlFiles[i].locations[k].wgs84.features # <<>>

\* the ids of a sequence of locations, in order
Ids(locations) == [i \in 1..Len(locations) |-> locations[i].id]

\* a run wrote nothing unless it ended well, and then it wrote every requested
\* location, in the order of the config
AllOrNothing ==
    /\ appExit # "ok" => appFiles = <<>>
    /\ htmlExit # "ok" => htmlFiles = <<>>
    /\ appExit = "ok" =>
          /\ Len(appFiles) = 1
          /\ Ids(appFiles[1].locations) = Ids(config.locations)
    /\ htmlExit = "ok" =>
          /\ Len(htmlFiles) = 1
          /\ Ids(htmlFiles[1].locations) = Ids(config.locations)
    /\ DATA # <<>> => (appExit = "ok" /\ DATA = appFiles)
    /\ \A i \in 1..Len(activeLayers) :
          \E k \in 1..Len(config.locations) : config.locations[k].id = activeLayers[i].id

\* C9: loading is all or nothing (AllOrNothing in every state), and an add that
\* names no location leaves the active list, and the page, as they were.
C9_LoadAllOrNothing ==
    /\ []AllOrNothing
    /\ [][hist' = "unknown" => UNCHANGED <<activeLayers, layerList, svg, projection>>]_vars

\* C9 witness: the second of two locations could not be read after the first
\* was; both runs ended with the exception and wrote nothing.
C9_Witness ==
    /\ Len(config.locations) = 2
    /\ config.locations[1].id = "a"
    /\ config.locations[2].id = "m"
    /\ appExit = "FileNotFoundError" /\ appFiles = <<>>
    /\ htmlExit = "FileNotFoundError" /\ htmlFiles = <<>>

\* the coordinate sequences of the features of a collection, in order
CoordsOf(fc) == [k \in 1..Len(fc.features) |-> fc.features[k].geometry.coordinates]

\* the geometries that hold coordinates of the locations from i on, in order
RECURSIVE KeptFrom(_, _)
KeptFrom(locs, i) ==
    IF i > Len(locs) THEN <<>> ELSE KeptGeoms(locs[i]) \o KeptFrom(locs, i + 1)

\* C10: for every written location, the raw features are exactly the geometries of
\* the file that hold coordinates, once each and in file order, null and empty
\* ones left out; and the projected features are as many, feature k with as many
\* coordinates as raw feature k, each the raw one taken relative to the center.
\* In the static HTML the projected features of all locations form one
\* collection: the same, location after location.
C10_StructurePreserved ==
    /\ appExit = "ok" =>
          \A i \in 1..Len(config.locations) :
            LET out == appFiles[1].locations[i]
                kept == KeptGeoms(config.locations[i])
            IN  /\ CoordsOf(out.wgs84) = [k \in 1..Len(kept) |-> kept[k].coords]
                /\ Len(out.projected.features) = Len(kept)
                /\ \A k \in 1..Len(kept) :
                      /\ Len(CoordsOf(out.projected)[k]) = Len(kept[k].coords)
                      /\ ~IsNaN(appFiles[1].center.lat) =>
                            \A j \in 1..Len(kept[k].coords) :
                                CoordsOf(out.projected)[k][j] =
                                    << kept[k].coords[j][1] - appFiles[1].center.lon,
                                       kept[k].coords[j][2] - appFiles[1].center.lat >>
    /\ htmlExit = "ok" =>
          /\ \A i \in 1..Len(config.locations) :
                LET kept == KeptGeoms(config.locations[i])
                IN  CoordsOf(htmlFiles[1].locations[i].wgs84) =
                        [k \in 1..Len(kept) |-> kept[k].coords]
          /\ LET all == KeptFrom(config.locations, 1)
                 out == CoordsOf(htmlFiles[1].projected)
             IN  /\ Len(out) = Len(all)
                 /\ \A k \in 1..Len(all) :
                       /\ Len(out[k]) = Len(all[k].coords)
                       /\ ~IsNaN(htmlFiles[1].center.lat) =>
                             \A j \in 1..Len(all[k].coords) :
                                 out[k][j] =
                                     << all[k].coords[j][1] - htmlFiles[1].center.lon,
                                        all[k].coords[j][2] - htmlFiles[1].center.lat >>

\* C10 witness: a location whose file holds a null, an empty and two other
\* geometries was written with two raw and two projected features.
C10_Witness ==
    /\ appExit = "ok" /\ htmlExit = "ok"
    /\ Len(htmlFiles[1].projected.features) >= 2
    /\ \E i \in 1..Len(config.locations) :
          /\ config.locations[i].id = "b"
          /\ Len(appFiles[1].locations[i].wgs84.features) = 2
          /\ Len(appFiles[1].locations[i].projected.features) = 2

\* the raw features of all locations of the static HTML from i on, in order
RECURSIVE HtmlRawFrom(_, _)
HtmlRawFrom(locations, i) ==
    IF i > Len(locations) THEN <<>>
    ELSE CoordsOf(locations[i].wgs84) \o HtmlRawFrom(locations, i + 1)

\* in a pair of raw and projected coordinate sequences, every raw coordinate at
\* the center c has the projected coordinate (0, 0)
CenterAtZero(raw, proj, c) ==
    /\ Len(proj) = Len(raw)
    /\ \A k \in 1..Len(raw) :
          /\ Len(proj[k]) = Len(raw[k])
          /\ \A j \in 1..Len(raw[k]) :
                raw[k][j] = <<c.lon, c.lat>> => proj[k][j] = <<0, 0>>

\* a written payload holds a vertex at its center
VertexAtCenter(raw, c) ==
    \E k \in 1..Len(raw) : \E j \in 1..Len(raw[k]) : raw[k][j] = <<c.lon, c.lat>>

Core(l) == [instId |-> l.instId, id |-> l.id, name |-> l.name, color |-> l.color,
            loc |-> l.loc, tx |-> l.tx, ty |-> l.ty]

\* after is before with one more instance at its end, the others as they were
AddedOne(before, after) ==
    /\ Len(after) = Len(before) + 1
    /\ \A i \in 1..Len(before) : Core(after[i]) = Core(before[i])

\* after is before without the instance at one place, the others as they were
\* and in the same order
RemovedOne(before, after) ==
    /\ Len(after) = Len(before) - 1
    /\ \E c \in 1..Len(before) :
          \A i \in 1..Len(after) :
              Core(after[i]) = Core(before[IF i < c THEN i ELSE i + 1])

\* C12 (as claimed): an add or a remove changes the active list by the one
\* instance added or removed; every other instance stays, in the same relative
\* order, with its offset.
C12_AddRemoveKeepOthers ==
    [][Len(activeLayers') # Len(activeLayers) =>
          \/ AddedOne(activeLayers, activeLayers')
          \/ RemovedOne(activeLayers, activeLayers')]_vars

\* the same, for steps that start with no two instances sharing an instId
KeepOthersWhenUnique ==
    [][(C3_UniqueInstIds /\ Len(activeLayers') # Len(activeLayers)) =>
          \/ AddedOne(activeLayers, activeLayers')
          \/ RemovedOne(activeLayers, activeLayers')]_vars

\* C13: once the page is loaded, the svg holds exactly one group per active
\* instance, in the order of the active list, each tagged with the instId of its
\* instance, bound to its layer object and translated by its stored offset.
C13_ViewMatchesSession ==
    DATA # <<>> =>
        /\ Len(svg) = Len(activeLayers)
        /\ \A i \in 1..Len(svg) :
              /\ svg[i].instId = activeLayers[i].instId
              /\ svg[i].layer = activeLayers[i].obj
              /\ svg[i].transform = <<activeLayers[i].tx, activeLayers[i].ty>>

\* C13 witness: a dragged instance was drawn again, at its offset, by the
\* re-render of a remove and an add of another source.
C13_Witness ==
    /\ hist = "readded"
    /\ Len(svg) = 2
    /\ activeLayers[1].id # WatchId
    /\ activeLayers[1].tx = 10 /\ activeLayers[1].ty = -5
    /\ svg[1].transform = <<10, -5>>
    /\ svg[2].transform = <<0, 0>>

====
